---- MODULE Spec2Model ----
(***************************************************************************)
(* SignUpController.handle of brunobmello25/tdd-clean-architecture-api.    *)
(*                                                                         *)
(* Two revisions of the controller are in the sources:                     *)
(*   - src/presentation/controllers/SignUp/signUpController.ts, whose      *)
(*     handle is a plain function that uses the values its collaborators   *)
(*     return as they are (no await);                                      *)
(*   - unnamed/part_001, whose handle is an async function that awaits     *)
(*     both collaborator calls.                                            *)
(* The variable revision says which of the two classes the controller      *)
(* instance was built from.  The collaborators (EmailValidator,            *)
(* CreateUser) are external: a call returns a value, throws, or returns a  *)
(* promise that is settled later by the environment, or never.             *)
(***************************************************************************)
EXTENDS Integers, Sequences, FiniteSets, TLC

\* Number of handle invocations that may be in flight on one controller.
NInv == 2

Invocations == 1..NInv

\* The string values request fields take ("" is the falsy string).
Strings == {"", "a", "b"}

\* The errors a collaborator may throw or reject with.
Errors == {"Error", "TypeError"}

SyncRevision == "signUpController.ts"
AsyncRevision == "part_001"
Revisions == {SyncRevision, AsyncRevision}

RequiredFields == <<"name", "email", "password", "passwordConfirmation">>

FieldNames == {RequiredFields[k] : k \in 1..Len(RequiredFields)}

\* Every request body: a mapping from some of the field names to strings.
Bodies == UNION {[D -> Strings] : D \in SUBSET FieldNames}

\* The request bodies used when several invocations interleave.
ConcBodies ==
    {b \in [FieldNames -> {"a", "b"}] : b["name"] = "a" /\ b["password"] = "a"}

\* The User records the CreateUser collaborator may produce.
Users ==
    {[type |-> "User", id |-> d, name |-> "valid_name",
      email |-> "valid_email@email.com", password |-> "valid_password"] :
        d \in {"valid_id", "other_id"}}

NoUser == [type |-> "undefined"]

VARIABLES
    controller,     \* the controller's two private fields
    revision,       \* which SignUpController class the instance is
    httpRequest,    \* invocation -> the body it was called with
    pc,             \* invocation -> "idle", "awaitIsValid", "awaitCreate", "returned"
    httpResponse,   \* invocation -> the response handle returned
    isValidCalls,   \* invocation -> the arguments of its isValid calls, in order
    createCalls,    \* invocation -> the arguments of its create calls, in order
    isValidResult,  \* invocation -> what its isValid call produced
    createResult    \* invocation -> what its create call produced

vars == <<controller, revision, httpRequest, pc, httpResponse, isValidCalls,
          createCalls, isValidResult, createResult>>

----------------------------------------------------------------------------
\* Values, errors and responses

NoRequest == [type |-> "none"]
NoResponse == [type |-> "none"]
NotCalled == [kind |-> "notCalled"]

MissingParamError(paramName) == [type |-> "MissingParamError", paramName |-> paramName]
InvalidParamError(paramName) == [type |-> "InvalidParamError", paramName |-> paramName]
ServerError == [type |-> "ServerError"]

badRequest(error) == [statusCode |-> 400, body |-> error]
serverError == [statusCode |-> 500, body |-> ServerError]
success(data) == [statusCode |-> 200, body |-> data]

\* Falsy with a test for absence only (=== undefined instead of !value).
Falsy_AbsentOnly(body, field) == field \notin DOMAIN body

\* !httpRequest.body[field]: the field is absent or holds the empty string.
Falsy(body, field) == field \notin DOMAIN body \/ body[field] = ""

\* The index in RequiredFields of the first falsy field, 0 when there is none.
RECURSIVE FirstMissingFrom(_, _)
FirstMissingFrom(body, k) ==
    IF k > Len(RequiredFields) THEN 0
    ELSE IF Falsy(body, RequiredFields[k]) THEN k
    ELSE FirstMissingFrom(body, k + 1)

FirstMissing(body) == FirstMissingFrom(body, 1)

\* The argument handle gives to isValid.
IsValidArg(body) == body["email"]

\* The argument handle gives to create: { name, email, password }.
CreateArg(body) ==
    [name |-> body["name"], email |-> body["email"], password |-> body["password"]]

----------------------------------------------------------------------------
\* Collaborator calls.  A call produces
\*   [kind |-> "return", ...]   a value returned directly,
\*   [kind |-> "throw", ...]    an exception thrown by the call itself,
\*   [kind |-> "promise", ...]  a promise, pending until the environment settles it.

Returned(v, noValue) == [kind |-> "return", state |-> "fulfilled", value |-> v, error |-> ""]
Threw(e, noValue) == [kind |-> "throw", state |-> "rejected", value |-> noValue, error |-> e]
PendingPromise(noValue) == [kind |-> "promise", state |-> "pending", value |-> noValue, error |-> ""]

CallOutcomes(values, noValue) ==
    {Returned(v, noValue) : v \in values}
        \cup {Threw(e, noValue) : e \in Errors}
        \cup {PendingPromise(noValue)}

IsValidOutcomes == CallOutcomes(BOOLEAN, FALSE)
CreateOutcomes == CallOutcomes(Users, NoUser)

\* A reference to the promise a collaborator call of invocation i returned.
PromiseRef(i, method) == [type |-> "Promise", method |-> method, invocation |-> i]

\* The JavaScript value a call expression evaluates to (the call did not throw).
CallValue(i, method, r) ==
    IF r.kind = "promise" THEN PromiseRef(i, method) ELSE r.value

\* !isValid on the value of the call expression: a promise object is truthy.
IsFalsyResult(r) == r.kind = "return" /\ r.value = FALSE

\* await on the result of a call: rejected promises throw, other results
\* give their (settled) value.
AwaitThrows(r) == r.state = "rejected"
AwaitValue(r) == r.value

----------------------------------------------------------------------------
Init ==
    /\ controller = [emailValidator |-> "emailValidatorStub", createUser |-> "createUserStub"]
    /\ revision \in Revisions
    /\ httpRequest = [i \in Invocations |-> NoRequest]
    /\ pc = [i \in Invocations |-> "idle"]
    /\ httpResponse = [i \in Invocations |-> NoResponse]
    /\ isValidCalls = [i \in Invocations |-> <<>>]
    /\ createCalls = [i \in Invocations |-> <<>>]
    /\ isValidResult = [i \in Invocations |-> NotCalled]
    /\ createResult = [i \in Invocations |-> NotCalled]

\* handle returns resp to its caller (for the async revision: the promise
\* handle returned is fulfilled with resp).
Return(i, resp) ==
    /\ pc' = [pc EXCEPT ![i] = "returned"]
    /\ httpResponse' = [httpResponse EXCEPT ![i] = resp]

\* this.emailValidator.isValid(email) is called and produces r.
CallIsValid(i, body, r) ==
    /\ isValidCalls' = [isValidCalls EXCEPT ![i] = Append(@, IsValidArg(body))]
    /\ isValidResult' = [isValidResult EXCEPT ![i] = r]

\* this.createUser.create({ name, email, password }) is called and produces r.
CallCreate(i, body, r) ==
    /\ createCalls' = [createCalls EXCEPT ![i] = Append(@, CreateArg(body))]
    /\ createResult' = [createResult EXCEPT ![i] = r]

\* ValidationFailure without the comparison of the two passwords.
ValidationFailure_NoConfirmation(body) ==
    IF FirstMissing(body) # 0
        THEN badRequest(MissingParamError(RequiredFields[FirstMissing(body)]))
    ELSE NoResponse

\* The checks both revisions make before they reach a collaborator: the
\* response of the first failing check, NoResponse when all pass.
ValidationFailure(body) ==
    IF FirstMissing(body) # 0
        THEN badRequest(MissingParamError(RequiredFields[FirstMissing(body)]))
    ELSE IF body["password"] # body["passwordConfirmation"]
        THEN badRequest(InvalidParamError("passwordConfirmation"))
    ELSE NoResponse

\* handle of signUpController.ts, run on a request that passed the checks
\* and whose isValid call produced rv.
SyncAfterIsValid(i, body, rv) ==
    IF rv.kind = "throw"
        THEN /\ Return(i, serverError)
             /\ UNCHANGED <<createCalls, createResult>>
    ELSE IF IsFalsyResult(rv)
        THEN /\ Return(i, badRequest(InvalidParamError("email")))
             /\ UNCHANGED <<createCalls, createResult>>
    ELSE \E rc \in CreateOutcomes :
            /\ CallCreate(i, body, rc)
            /\ IF rc.kind = "throw"
                  THEN Return(i, serverError)
                  ELSE Return(i, [statusCode |-> 200,
                                  body |-> CallValue(i, "create", rc)])

\* signUpController.ts: handle(httpRequest), a plain function: it runs from
\* its first line to its return without suspending.
HandleSync(i, body) ==
    /\ revision = SyncRevision
    /\ pc[i] = "idle"
    /\ httpRequest' = [httpRequest EXCEPT ![i] = body]
    /\ IF ValidationFailure(body) # NoResponse
          THEN /\ Return(i, ValidationFailure(body))
               /\ UNCHANGED <<isValidCalls, isValidResult, createCalls, createResult>>
          ELSE \E rv \in IsValidOutcomes :
                  /\ CallIsValid(i, body, rv)
                  /\ SyncAfterIsValid(i, body, rv)
    /\ UNCHANGED <<controller, revision>>

\* part_001: async handle(httpRequest), from its first line to the first
\* await (line 38) or to an earlier return.
HandleAsync(i, body) ==
    /\ revision = AsyncRevision
    /\ pc[i] = "idle"
    /\ httpRequest' = [httpRequest EXCEPT ![i] = body]
    /\ IF ValidationFailure(body) # NoResponse
          THEN /\ Return(i, ValidationFailure(body))
               /\ UNCHANGED <<isValidCalls, isValidResult>>
          ELSE \E rv \in IsValidOutcomes :
                  /\ CallIsValid(i, body, rv)
                  /\ IF rv.kind = "throw"
                        THEN Return(i, serverError)
                        ELSE /\ pc' = [pc EXCEPT ![i] = "awaitIsValid"]
                             /\ UNCHANGED httpResponse
    /\ UNCHANGED <<controller, revision, createCalls, createResult>>

\* Locals kept in a field of the controller instead of in the invocation:
\* another invocation that started overwrites them.
Locals_Shared(i) ==
    IF \E j \in Invocations \ {i} : httpRequest[j] # NoRequest
        THEN httpRequest[CHOOSE j \in Invocations \ {i} : httpRequest[j] # NoRequest]
        ELSE httpRequest[i]

\* The constants name, email, password, passwordConfirmation that handle
\* destructures from its own httpRequest.body: each invocation has its own,
\* and they keep their values across its awaits.
Locals(i) == httpRequest[i]

\* part_001: handle resumes after `await this.emailValidator.isValid(email)`
\* and runs to the second await (line 42) or to a return.
ResumeAfterIsValid(i) ==
    /\ revision = AsyncRevision
    /\ pc[i] = "awaitIsValid"
    /\ isValidResult[i].state # "pending"
    /\ IF AwaitThrows(isValidResult[i])
          THEN /\ Return(i, serverError)
               /\ UNCHANGED <<createCalls, createResult>>
       ELSE IF ~AwaitValue(isValidResult[i])
          THEN /\ Return(i, badRequest(InvalidParamError("email")))
               /\ UNCHANGED <<createCalls, createResult>>
       ELSE \E rc \in CreateOutcomes :
               /\ CallCreate(i, Locals(i), rc)
               /\ IF rc.kind = "throw"
                     THEN Return(i, serverError)
                     ELSE /\ pc' = [pc EXCEPT ![i] = "awaitCreate"]
                          /\ UNCHANGED httpResponse
    /\ UNCHANGED <<controller, revision, httpRequest, isValidCalls, isValidResult>>

\* part_001: handle resumes after `await this.createUser.create(...)` and
\* returns success(user), or serverError() from the catch block.
ResumeAfterCreate(i) ==
    /\ revision = AsyncRevision
    /\ pc[i] = "awaitCreate"
    /\ createResult[i].state # "pending"
    /\ IF AwaitThrows(createResult[i])
          THEN Return(i, serverError)
          ELSE Return(i, success(AwaitValue(createResult[i])))
    /\ UNCHANGED <<controller, revision, httpRequest, isValidCalls, isValidResult,
                   createCalls, createResult>>

\* The environment settles the promise an isValid call returned.
SettleIsValid(i) ==
    /\ isValidResult[i].kind = "promise"
    /\ isValidResult[i].state = "pending"
    /\ \/ \E v \in BOOLEAN :
            isValidResult' = [isValidResult EXCEPT ![i].state = "fulfilled", ![i].value = v]
       \/ \E e \in Errors :
            isValidResult' = [isValidResult EXCEPT ![i].state = "rejected", ![i].error = e]
    /\ UNCHANGED <<controller, revision, httpRequest, pc, httpResponse, isValidCalls,
                   createCalls, createResult>>

\* The environment settles the promise a create call returned.
SettleCreate(i) ==
    /\ createResult[i].kind = "promise"
    /\ createResult[i].state = "pending"
    /\ \/ \E u \in Users :
            createResult' = [createResult EXCEPT ![i].state = "fulfilled", ![i].value = u]
       \/ \E e \in Errors :
            createResult' = [createResult EXCEPT ![i].state = "rejected", ![i].error = e]
    /\ UNCHANGED <<controller, revision, httpRequest, pc, httpResponse, isValidCalls,
                   isValidResult, createCalls>>

\* One handle invocation, with every request body.
Next ==
    \/ \E body \in Bodies : HandleSync(1, body)
    \/ \E body \in Bodies : HandleAsync(1, body)
    \/ ResumeAfterIsValid(1)
    \/ ResumeAfterCreate(1)
    \/ SettleIsValid(1)
    \/ SettleCreate(1)

Spec == Init /\ [][Next]_vars

\* Several handle invocations on one controller, interleaving.
NextConc ==
    \E i \in Invocations :
        \/ \E body \in ConcBodies : HandleSync(i, body)
        \/ \E body \in ConcBodies : HandleAsync(i, body)
        \/ ResumeAfterIsValid(i)
        \/ ResumeAfterCreate(i)
        \/ SettleIsValid(i)
        \/ SettleCreate(i)

SpecConc == Init /\ [][NextConc]_vars

----------------------------------------------------------------------------
\* Vocabulary of the properties, stated without the operators handle uses.

FieldOrder == <<"name", "email", "password", "passwordConfirmation">>

Absent(body, f) == f \notin DOMAIN body
Missing(body, f) == Absent(body, f) \/ body[f] = ""
AllPresent(body) == \A k \in 1..4 : ~Missing(body, FieldOrder[k])
PassesChecks(body) == AllPresent(body) /\ body["password"] = body["passwordConfirmation"]

Started(i) == pc[i] # "idle"
Completed(i) == pc[i] = "returned"

Response(status, body) == [statusCode |-> status, body |-> body]
MissingParam(f) == [type |-> "MissingParamError", paramName |-> f]
InvalidParam(f) == [type |-> "InvalidParamError", paramName |-> f]
ServerErr == [type |-> "ServerError"]

Pending(r) == r # NotCalled /\ r.state = "pending"
Failed(r) == r # NotCalled /\ r.state = "rejected"
Yielded(r, v) == r # NotCalled /\ r.state = "fulfilled" /\ r.value = v
Succeeded(r) == r # NotCalled /\ r.state = "fulfilled"

----------------------------------------------------------------------------
\* C1: when some required field is absent or the empty string, handle
\* returns 400 with MissingParamError(f), f the first such field in the order
\* name, email, password, passwordConfirmation, and it does so without
\* suspending; in particular a body that lacks exactly one field f, the other
\* three holding any non-empty values, gets MissingParamError(f).
C1_MissingParam ==
    \A i \in Invocations :
        Started(i) =>
            /\ \A k \in 1..4 :
                  (/\ Missing(httpRequest[i], FieldOrder[k])
                   /\ \A j \in 1..(k - 1) : ~Missing(httpRequest[i], FieldOrder[j]))
                  => /\ Completed(i)
                     /\ httpResponse[i] = Response(400, MissingParam(FieldOrder[k]))
            /\ \A k \in 1..4 :
                  (/\ Absent(httpRequest[i], FieldOrder[k])
                   /\ \A j \in (1..4) \ {k} : ~Missing(httpRequest[i], FieldOrder[j]))
                  => httpResponse[i] = Response(400, MissingParam(FieldOrder[k]))

\* C1 witness: a request with a name, an empty email and no password was
\* answered with MissingParamError("email").
C1_Witness ==
    /\ Completed(1)
    /\ ~Missing(httpRequest[1], "name")
    /\ ~Absent(httpRequest[1], "email") /\ httpRequest[1]["email"] = ""
    /\ Absent(httpRequest[1], "password")
    /\ httpResponse[1] = Response(400, MissingParam("email"))

\* C5: when the four fields are present and password differs from
\* passwordConfirmation, handle returns 400 with
\* InvalidParamError("passwordConfirmation") without suspending, and the
\* email validator is not consulted, so its answer cannot matter.
C5_PasswordConfirmation ==
    \A i \in Invocations :
        (/\ Started(i)
         /\ AllPresent(httpRequest[i])
         /\ httpRequest[i]["password"] # httpRequest[i]["passwordConfirmation"])
        => /\ Completed(i)
           /\ httpResponse[i] = Response(400, InvalidParam("passwordConfirmation"))
           /\ isValidResult[i] = NotCalled

\* C5 witness: a complete request with differing passwords was answered.
C5_Witness ==
    /\ Completed(1)
    /\ AllPresent(httpRequest[1])
    /\ httpRequest[1]["password"] = "a"
    /\ httpRequest[1]["passwordConfirmation"] = "b"
    /\ httpResponse[1].statusCode = 400

\* C10: invocations in flight on one controller do not interfere: the
\* controller's two fields never change; an invocation calls its
\* collaborators with values of its own request body only; and two completed
\* invocations with equal bodies and equal collaborator answers have equal
\* responses (a response that carries a promise carries the invocation's own).
SameResponse(i, j) ==
    /\ httpResponse[i].statusCode = httpResponse[j].statusCode
    /\ \/ httpResponse[i].body = httpResponse[j].body
       \/ /\ httpResponse[i].body = [type |-> "Promise", method |-> "create", invocation |-> i]
          /\ httpResponse[j].body = [type |-> "Promise", method |-> "create", invocation |-> j]

C10_NoInterference ==
    /\ controller = [emailValidator |-> "emailValidatorStub", createUser |-> "createUserStub"]
    /\ \A i \in Invocations :
          Started(i) =>
            /\ isValidCalls[i] \in {<<>>, <<httpRequest[i]["email"]>>}
            /\ createCalls[i] \in
                  {<<>>, <<[name |-> httpRequest[i]["name"],
                            email |-> httpRequest[i]["email"],
                            password |-> httpRequest[i]["password"]]>>}
    /\ \A i, j \in Invocations :
          (/\ Completed(i) /\ Completed(j)
           /\ httpRequest[i] = httpRequest[j]
           /\ isValidResult[i] = isValidResult[j]
           /\ createResult[i] = createResult[j])
          => SameResponse(i, j)

\* C10 witness: two invocations with different emails are suspended at
\* different awaits, the first already past its create call.
C10_Witness ==
    /\ pc[1] = "awaitCreate"
    /\ pc[2] = "awaitIsValid"
    /\ httpRequest[1]["email"] # httpRequest[2]["email"]
    /\ Len(createCalls[1]) = 1
    /\ createCalls[1][1].email = httpRequest[1]["email"]

----------------------------------------------------------------------------
\* The properties below hold of the handle of part_001 and fail on the handle
\* of signUpController.ts, which does not await its collaborators.

\* C2: for a request that passes the checks, when isValid fails (throws or
\* rejects), or create fails, the response handle returned is 500 with
\* ServerError, whatever the error.
C2_ServerErrorOnFailure ==
    \A i \in Invocations :
        (/\ Completed(i)
         /\ PassesChecks(httpRequest[i])
         /\ Failed(isValidResult[i]) \/ Failed(createResult[i]))
        => httpResponse[i] = Response(500, ServerErr)

\* C2 on part_001 alone.
C2_OnPart001 == revision = AsyncRevision => C2_ServerErrorOnFailure

\* C3: for a request that passes the checks, when isValid yields true and
\* create yields a user, the response is 200 with that user record as body,
\* and create was called once, with exactly {name, email, password} of the body.
C3_Success ==
    \A i \in Invocations :
        (/\ Completed(i)
         /\ PassesChecks(httpRequest[i])
         /\ Yielded(isValidResult[i], TRUE)
         /\ Succeeded(createResult[i]))
        => /\ httpResponse[i] = Response(200, createResult[i].value)
           /\ httpResponse[i].body \in Users
           /\ createCalls[i] = <<[name |-> httpRequest[i]["name"],
                                  email |-> httpRequest[i]["email"],
                                  password |-> httpRequest[i]["password"]]>>

\* C3 on part_001 alone.
C3_OnPart001 == revision = AsyncRevision => C3_Success

\* C4: for a request that passes the checks, isValid is called exactly once,
\* with the email of the body; and when its (possibly asynchronous) result is
\* false the response is 400 with InvalidParamError("email").
C4_InvalidEmail ==
    \A i \in Invocations :
        (Started(i) /\ PassesChecks(httpRequest[i]))
        => /\ isValidCalls[i] = <<httpRequest[i]["email"]>>
           /\ (Completed(i) /\ Yielded(isValidResult[i], FALSE))
                 => httpResponse[i] = Response(400, InvalidParam("email"))

\* C4 on part_001 alone.
C4_OnPart001 == revision = AsyncRevision => C4_InvalidEmail

\* C6: the two collaborator calls of an invocation are sequential: its isValid
\* call and its create call are never both outstanding, and create is called
\* only once the isValid call has completed with its result.
C6_Sequential ==
    \A i \in Invocations :
        /\ ~(Pending(isValidResult[i]) /\ Pending(createResult[i]))
        /\ createCalls[i] # <<>> => Succeeded(isValidResult[i])

\* C6 on part_001 alone.
C6_OnPart001 == revision = AsyncRevision => C6_Sequential

\* C7: a completed invocation has a response {statusCode, body}; statusCode is
\* 200, 400 or 500; body is a MissingParamError or InvalidParamError exactly
\* when statusCode is 400, ServerError exactly when 500, and the created user
\* record exactly when 200.
C7_ResponseShape ==
    \A i \in Invocations :
        Completed(i) =>
            /\ httpResponse[i] # NoResponse
            /\ DOMAIN httpResponse[i] = {"statusCode", "body"}
            /\ httpResponse[i].statusCode \in {200, 400, 500}
            /\ (httpResponse[i].statusCode = 400) <=>
                  (httpResponse[i].body.type \in {"MissingParamError", "InvalidParamError"})
            /\ (httpResponse[i].statusCode = 500) <=> (httpResponse[i].body = ServerErr)
            /\ (httpResponse[i].statusCode = 200) <=>
                  (httpResponse[i].body \in Users /\ httpResponse[i].body = createResult[i].value)

\* C7 on part_001 alone.
C7_OnPart001 == revision = AsyncRevision => C7_ResponseShape

\* C8: handle does not return while a collaborator call it made is still
\* pending: a completed invocation has no outstanding isValid or create call.
C8_NoResponseWhilePending ==
    \A i \in Invocations :
        Completed(i) => ~Pending(isValidResult[i]) /\ ~Pending(createResult[i])

\* C8 on part_001 alone.
C8_OnPart001 == revision = AsyncRevision => C8_NoResponseWhilePending

\* One invocation whose collaborator calls all complete (every promise is
\* settled) and whose continuations are run by the event loop.
SpecFair ==
    /\ Spec
    /\ WF_vars(SettleIsValid(1)) /\ WF_vars(SettleCreate(1))
    /\ WF_vars(ResumeAfterIsValid(1)) /\ WF_vars(ResumeAfterCreate(1))

\* C8 on part_001, liveness half: when every collaborator call completes, a
\* started invocation eventually returns.
C8_OnPart001_Returns == Started(1) ~> Completed(1)

\* C8 on part_001: a response, once returned, is never replaced.
C8_OnPart001_OneResponse ==
    [][\A i \in Invocations : Completed(i) =>
          (httpResponse'[i] = httpResponse[i] /\ pc'[i] = pc[i])]_vars

\* C9: isValid is called in an invocation exactly when the request passes the
\* checks; create is called, at most once, only when moreover isValid has
\* completed and yielded true, and in a completed invocation exactly then; no
\* collaborator is called when the response is a MissingParamError or
\* InvalidParamError("passwordConfirmation"); create is not called when the
\* response is InvalidParamError("email") or the validator failed.
C9_TerminalOnFirstFailure ==
    \A i \in Invocations :
        Started(i) =>
            /\ (isValidCalls[i] # <<>>) <=> PassesChecks(httpRequest[i])
            /\ Len(createCalls[i]) <= 1
            /\ createCalls[i] # <<>> =>
                  PassesChecks(httpRequest[i]) /\ Yielded(isValidResult[i], TRUE)
            /\ (Completed(i) /\ PassesChecks(httpRequest[i]) /\ Yielded(isValidResult[i], TRUE))
                  => createCalls[i] # <<>>
            /\ (Completed(i) /\ httpResponse[i].body.type = "MissingParamError")
                  => isValidCalls[i] = <<>> /\ createCalls[i] = <<>>
            /\ (Completed(i) /\ httpResponse[i].body = InvalidParam("passwordConfirmation"))
                  => isValidCalls[i] = <<>> /\ createCalls[i] = <<>>
            /\ (Completed(i) /\ httpResponse[i].body = InvalidParam("email"))
                  => createCalls[i] = <<>>
            /\ Failed(isValidResult[i]) => createCalls[i] = <<>>

\* C9 on part_001 alone.
C9_OnPart001 == revision = AsyncRevision => C9_TerminalOnFirstFailure

====
